---- MODULE Spec2Model ----
(***************************************************************************)
(* A model of the multi-tenant project/task backend (saas_backend).        *)
(*                                                                         *)
(* The shared (public) tables hold the Company and Domain rows; every      *)
(* namespace (PostgreSQL schema) holds its own identity, profile, project  *)
(* and task tables.  The connection carries the current namespace          *)
(* (connection.schema_name).  Every HTTP handler and every background job  *)
(* is one action; `last` records the request just served and its response. *)
(*                                                                         *)
(* Strings whose characters matter (schema identifiers, hostnames) are     *)
(* sequences of one-character strings, so that lower(), replace() and      *)
(* isalnum() are computed character by character.                          *)
(***************************************************************************)
EXTENDS Integers, Sequences, FiniteSets, Bags, TLC

VARIABLES
    companies,    \* rows of tenants_company (shared table)
    domains,      \* rows of tenants_domain  (shared table)
    company_seq,  \* last id handed out for a Company row
    db,           \* namespace -> its tables (users, profiles, projects, tasks)
    schema_name,  \* connection.schema_name: the current namespace
    now,          \* the clock (timezone.now())
    queue,        \* the jobs enqueued and not yet run (a bag of messages)
    pending,      \* the requests validated and not yet saved, by worker
    last          \* the request just handled and its response

vars ==
    <<companies, domains, company_seq, db, schema_name, now, queue, pending,
      last>>

-----------------------------------------------------------------------------
(* Bounds of the model *)

MaxCompanies == 2
MaxUsers == 2
MaxProfiles == 3
MaxProjects == 1
MaxTasks == 1

-----------------------------------------------------------------------------
(* Strings *)

Public == <<"p", "u", "b", "l", "i", "c">>

None == "None"

UpperChars == {"A", "B"}
LowerChars == {"a", "b", "p", "u", "l", "i", "c", "x"}
DigitChars == {"1"}

\* str.lower(), one character
lower_char(c) ==
    CASE c = "A" -> "a"
      [] c = "B" -> "b"
      [] OTHER -> c

\* str.lower()
lower(s) == [i \in DOMAIN s |-> lower_char(s[i])]

\* str.replace(old, ''), old a single character
replace(s, old) == SelectSeq(s, LAMBDA c : c # old)

\* str.isalnum(): non-empty, and every character a letter or a digit
isalnum(s) ==
    /\ Len(s) > 0
    /\ \A i \in DOMAIN s : s[i] \in UpperChars \cup LowerChars \cup DigitChars

\* The request payloads tried by the model.
SchemaInputs == { <<"a">>, <<"A">>, <<"b", "_">>, <<"a", "-">>, <<"_">> }
DomainInputs == { <<"a", ".", "x">>, <<"A", ".", "x">>, <<"b", ".", "x">> }
Usernames == {"admin", "bob"}
Emails == {"a@x", "b@x"}
Roles == {"admin", "manager", "member", "viewer"}

-----------------------------------------------------------------------------
(* A namespace's tables *)

EmptySchema ==
    [users |-> {}, profiles |-> {}, projects |-> {}, tasks |-> {},
     seq |-> [users |-> 0, profiles |-> 0, projects |-> 0, tasks |-> 0]]

\* The profiles of identity user_id in the tables d of one namespace.
ProfilesOf(d, user_id) == {p \in d.profiles : p.user = user_id}

\* UserProfile.objects.get_or_create(user=instance): role, phone, department
\* and is_active take the model's defaults.
profile_get_or_create(d, user_id) ==
    IF \E p \in d.profiles : p.user = user_id
    THEN d
    ELSE [d EXCEPT !.profiles = @ \cup
                       {[id |-> d.seq.profiles + 1, user |-> user_id,
                         role |-> "member", phone |-> None,
                         department |-> None, is_active |-> TRUE]},
                   !.seq.profiles = @ + 1]

\* A mutant of create_user_profile: the receiver never creates a profile.
create_user_profile_never(d, schema, user_id, created) == d

\* post_save receiver: a profile for every identity created outside public.
create_user_profile(d, schema, user_id, created) ==
    IF created /\ schema # Public
    THEN profile_get_or_create(d, user_id)
    ELSE d

\* post_save receiver: instance.profile.save() rewrites the row it read
\* (updated_at only), so the tables are as before.
save_user_profile(d, schema, user_id) == d

\* User.objects.create_user(...): auth_user.username is unique; the row is
\* inserted and the post_save receivers run.  [raised, d, id]
create_user(d, schema, username, email, is_staff, is_superuser) ==
    IF \E u \in d.users : u.username = username
    THEN [raised |-> TRUE, d |-> d, id |-> 0]
    ELSE LET id == d.seq.users + 1
             d1 == [d EXCEPT !.users = @ \cup
                                 {[id |-> id, username |-> username,
                                   email |-> email, is_staff |-> is_staff,
                                   is_superuser |-> is_superuser]},
                             !.seq.users = id]
             d2 == create_user_profile(d1, schema, id, TRUE)
         IN  [raised |-> FALSE, d |-> save_user_profile(d2, schema, id),
              id |-> id]

-----------------------------------------------------------------------------
(* Company registration: POST /register/ *)

\* CompanyRegistrationSerializer.validate_schema_name  [ok, value]
validate_schema_name(value) ==
    IF \E c \in companies : c.schema_name = value
    THEN [ok |-> FALSE, value |-> value]
    ELSE IF ~ isalnum(replace(value, "_"))
    THEN [ok |-> FALSE, value |-> value]
    ELSE [ok |-> TRUE, value |-> lower(value)]

\* CompanyRegistrationSerializer.validate_domain_url  [ok, value]
validate_domain_url(value) ==
    IF \E dm \in domains : dm.domain = value
    THEN [ok |-> FALSE, value |-> value]
    ELSE [ok |-> TRUE, value |-> lower(value)]

\* serializer.is_valid(): the fields in error (empty: valid)
registration_errors(data) ==
    {f \in {"schema_name"} : ~ validate_schema_name(data.schema_name).ok}
    \cup {f \in {"domain_url"} : ~ validate_domain_url(data.domain_url).ok}

\* Company.objects.create(...): schema_name is unique; the row is inserted
\* and (auto_create_schema) its namespace is created with empty tables.
company_create(tx, schema) ==
    IF \E c \in tx.companies : c.schema_name = schema
    THEN [tx EXCEPT !.raised = "company"]
    ELSE [tx EXCEPT !.companies = @ \cup
                        {[id |-> company_seq + 1, schema_name |-> schema,
                          is_active |-> TRUE]},
                    !.db = [s \in DOMAIN tx.db \cup {schema} |->
                               IF s \in DOMAIN tx.db THEN tx.db[s]
                               ELSE EmptySchema]]

\* A mutant of domain_create: no unique constraint on domain.
domain_create_not_unique(tx, domain, tenant) ==
    [tx EXCEPT !.domains = @ \cup
                   {[domain |-> domain, tenant |-> tenant,
                     is_primary |-> TRUE]}]

\* Domain.objects.create(domain=..., tenant=company, is_primary=True):
\* domain is unique.
domain_create(tx, domain, tenant) ==
    IF \E dm \in tx.domains : dm.domain = domain
    THEN [tx EXCEPT !.raised = "domain"]
    ELSE [tx EXCEPT !.domains = @ \cup
                        {[domain |-> domain, tenant |-> tenant,
                          is_primary |-> TRUE]}]

\* The admin identity, created with the connection on the new namespace;
\* `fail` is a failure of the insert (a database error).
admin_create(tx, schema, username, email, fail) ==
    LET r == create_user(tx.db[schema], schema, username, email, TRUE, TRUE)
    IN  IF fail \/ r.raised
        THEN [tx EXCEPT !.raised = "admin_user"]
        ELSE [tx EXCEPT !.db[schema] = r.d]

\* A mutant of atomic: no transaction, the writes made before the exception
\* stay.
atomic_missing(before, after) == after

\* with transaction.atomic(): an exception leaving the block rolls back every
\* write made in it.
atomic(before, after) ==
    IF after.raised # None
    THEN [before EXCEPT !.raised = after.raised]
    ELSE after

\* CompanyRegistrationSerializer.create  [tx, conn]: the tables after the
\* block and the connection's namespace, which connection.set_tenant(company)
\* moves and nothing moves back.
create(validated_data, fail) ==
    LET t0 == [companies |-> companies, domains |-> domains, db |-> db,
               raised |-> None]
        t1 == company_create(t0, validated_data.schema_name)
        t2 == IF t1.raised # None THEN t1
              ELSE domain_create(t1, validated_data.domain_url, company_seq + 1)
        t3 == IF t2.raised # None THEN t2
              ELSE admin_create(t2, validated_data.schema_name,
                                validated_data.admin_username,
                                validated_data.admin_email, fail)
    IN  [tx |-> atomic(t0, t3),
         conn |-> IF t2.raised # None THEN schema_name
                  ELSE validated_data.schema_name]

\* register_company: 400 with the field errors, 201 when created; an
\* exception out of serializer.save() is the framework's 500.
register_company(data, fail) ==
    LET errors == registration_errors(data)
        validated_data ==
            [data EXCEPT !.schema_name = validate_schema_name(@).value,
                         !.domain_url = validate_domain_url(@).value]
        r == create(validated_data, fail)
    IN  /\ schema_name = Public
        /\ company_seq < MaxCompanies
        /\ IF errors # {}
           THEN /\ last' = [op |-> "register", user |-> 0, status |-> 400,
                            errors |-> errors, data |-> None,
                            body |-> <<>>]
                /\ UNCHANGED <<companies, domains, company_seq, db,
                               schema_name>>
           ELSE /\ companies' = r.tx.companies
                /\ domains' = r.tx.domains
                /\ db' = r.tx.db
                /\ schema_name' = r.conn
                /\ company_seq' = IF r.tx.raised = None THEN company_seq + 1
                                  ELSE company_seq
                /\ last' = [op |-> "register", user |-> 0,
                            status |-> IF r.tx.raised = None THEN 201 ELSE 500,
                            errors |-> {}, data |-> r.tx.raised,
                            body |-> <<>>]
        /\ UNCHANGED <<now, queue, pending>>

\* The registration payloads tried by the model.
RegistrationInputs ==
    [schema_name : SchemaInputs, domain_url : DomainInputs,
     admin_username : {"admin"}, admin_email : {"a@x"}]

Register ==
    \E data \in RegistrationInputs, fail \in BOOLEAN :
        register_company(data, fail)

-----------------------------------------------------------------------------
(* The request's namespace *)

\* The tenant middleware: the connection is put on the namespace the
\* request's hostname belongs to before the view runs.
Route ==
    \E s \in DOMAIN db :
        /\ s # schema_name
        /\ schema_name' = s
        /\ last' = [op |-> "route", user |-> 0, status |-> 0,
                    errors |-> {}, data |-> None,
                    body |-> <<>>]
        /\ UNCHANGED <<companies, domains, company_seq, db, now,
                   queue, pending>>

\* An identity created directly (createsuperuser, a shell, the admin site)
\* on the connection's current namespace.
direct_create_user(u, e) ==
    /\ schema_name \in DOMAIN db
    /\ db[schema_name].seq.users < MaxUsers
    /\ LET r == create_user(db[schema_name], schema_name, u, e, FALSE, FALSE)
       IN  /\ db' = [db EXCEPT ![schema_name] = r.d]
           /\ last' = [op |-> "create_user", user |-> 0,
                       status |-> IF r.raised THEN 500 ELSE 0,
                       errors |-> {}, data |-> None,
                       body |-> IF r.raised THEN <<>> ELSE <<r.id>>]
    /\ UNCHANGED <<companies, domains, company_seq, schema_name, now,
                   queue, pending>>

CreateUser ==
    \E u \in Usernames : direct_create_user(u, "")

-----------------------------------------------------------------------------
(* Tenant users: /users/ *)

\* The tenant endpoints are served on a tenant's hostname, to an
\* authenticated identity of that namespace (IsAuthenticated, IsTenantUser).
tenant_request(user_id) ==
    /\ schema_name \in DOMAIN db
    /\ schema_name # Public
    /\ \E u \in db[schema_name].users : u.id = user_id

\* UserRegistrationSerializer.validate_username
validate_username(d, value) == ~ \E u \in d.users : u.username = value

\* UserRegistrationSerializer.validate_email
validate_email(d, value) == ~ \E u \in d.users : u.email = value

\* UserProfile.objects.create(user=user, ...): user is one-to-one, so a
\* second profile of the same identity is refused.  [raised, d]
profile_create(d, user_id, role, phone, department) ==
    IF \E p \in d.profiles : p.user = user_id
    THEN [raised |-> TRUE, d |-> d]
    ELSE [raised |-> FALSE,
          d |-> [d EXCEPT !.profiles = @ \cup
                              {[id |-> d.seq.profiles + 1, user |-> user_id,
                                role |-> role, phone |-> phone,
                                department |-> department,
                                is_active |-> TRUE]},
                          !.seq.profiles = @ + 1]]

\* UserRegistrationSerializer.create: the identity (its post_save receivers
\* run), then the profile; no transaction around the two.  [raised, d, id]
user_registration_create(d, schema, data) ==
    LET r == create_user(d, schema, data.username, data.email, FALSE, FALSE)
        p == profile_create(r.d, r.id, data.role, data.phone, data.department)
    IN  IF r.raised THEN [raised |-> TRUE, d |-> d, id |-> 0]
        ELSE [raised |-> p.raised, d |-> p.d, id |-> r.id]

\* UserViewSet.register: POST /users/register/
user_register(user_id, data) ==
    /\ tenant_request(user_id)
    /\ db[schema_name].seq.users < MaxUsers
    /\ LET d == db[schema_name]
           errors ==
               {f \in {"username"} : ~ validate_username(d, data.username)}
               \cup {f \in {"email"} : ~ validate_email(d, data.email)}
           r == user_registration_create(d, schema_name, data)
       IN  IF errors # {}
           THEN /\ last' = [op |-> "user_register", user |-> user_id,
                            status |-> 400,
                            errors |-> errors, data |-> None,
                            body |-> <<>>]
                /\ UNCHANGED db
           ELSE /\ db' = [db EXCEPT ![schema_name] = r.d]
                /\ last' = [op |-> "user_register", user |-> user_id,
                            status |-> IF r.raised THEN 500 ELSE 201,
                            errors |-> {}, data |-> None,
                            body |-> IF r.id = 0 THEN <<>> ELSE <<r.id>>]
    /\ UNCHANGED <<companies, domains, company_seq, schema_name, now,
                   queue, pending>>

\* The registration payloads tried by the model.
UserRegistrationInputs ==
    [username : Usernames, email : Emails, role : Roles,
     phone : {"555"}, department : {"eng"}]

UserIds == 1 .. (MaxUsers + 1)

UserRegister ==
    \E user_id \in UserIds, data \in UserRegistrationInputs :
        user_register(user_id, data)

\* The workers that serve requests side by side.
MaxWorkers == 2

Workers == 1 .. MaxWorkers

\* UserViewSet.register up to serializer.is_valid(): validate_username and
\* validate_email read the identities there are now. A valid request is
\* held by its worker until the save; an invalid one is answered 400.
register_is_valid(worker, user_id, data) ==
    /\ tenant_request(user_id)
    /\ ~ \E r \in pending : r.worker = worker
    /\ db[schema_name].seq.users + Cardinality(pending) <= MaxUsers
    /\ LET d == db[schema_name]
           errors ==
               {f \in {"username"} : ~ validate_username(d, data.username)}
               \cup {f \in {"email"} : ~ validate_email(d, data.email)}
       IN  /\ pending' = IF errors # {} THEN pending
                         ELSE pending \cup {[worker |-> worker,
                                             user |-> user_id,
                                             schema |-> schema_name,
                                             data |-> data]}
           /\ last' = [op |-> "user_register_is_valid", user |-> user_id,
                       status |-> IF errors # {} THEN 400 ELSE 0,
                       errors |-> errors, data |-> None, body |-> <<>>]
    /\ UNCHANGED <<companies, domains, company_seq, db, schema_name, now,
                   queue>>

\* UserViewSet.register from serializer.save() on: the identity and the
\* profile are created from the data validated before, against the
\* identities there are by now.
register_save(worker) ==
    \E r \in pending :
        /\ r.worker = worker
        /\ LET c == user_registration_create(db[r.schema], r.schema, r.data)
           IN  /\ db' = [db EXCEPT ![r.schema] = c.d]
               /\ last' = [op |-> "user_register_save", user |-> r.user,
                           status |-> IF c.raised THEN 500 ELSE 201,
                           errors |-> {}, data |-> None,
                           body |-> IF c.id = 0 THEN <<>> ELSE <<c.id>>]
        /\ pending' = pending \ {r}
        /\ UNCHANGED <<companies, domains, company_seq, schema_name, now,
                       queue>>

\* The registration payloads of the concurrent requests.
ConcurrentRegistrationInputs ==
    [username : {"bob", "carol"}, email : Emails \cup {"c@x"},
     role : {"admin", "member"}, phone : {"555"}, department : {"eng"}]

RegisterIsValid ==
    \E worker \in Workers, user_id \in UserIds,
       data \in ConcurrentRegistrationInputs :
        register_is_valid(worker, user_id, data)

RegisterSave == \E worker \in Workers : register_save(worker)

\* A set of ids as the list a queryset ordered by id returns.
RECURSIVE ids_ascending(_)
ids_ascending(S) ==
    IF S = {} THEN <<>>
    ELSE LET m == CHOOSE x \in S : \A y \in S : x <= y
         IN  <<m>> \o ids_ascending(S \ {m})

ProfileIds == 1 .. (MaxProfiles + MaxUsers)

\* A response with no change of state.
respond(op, user_id, status, errors, body) ==
    /\ last' = [op |-> op, user |-> user_id, status |-> status,
                errors |-> errors, data |-> None, body |-> body]
    /\ UNCHANGED <<companies, domains, company_seq,
                   db, schema_name, now, queue, pending>>

\* UserViewSet.list: GET /users/, every profile of the namespace
users_list(user_id) ==
    /\ tenant_request(user_id)
    /\ respond("users_list", user_id, 200, {},
               ids_ascending({p.id : p \in db[schema_name].profiles}))

\* UserViewSet.create: POST /users/.  UserProfileSerializer's user is
\* read-only, so the row is inserted with no user and the NOT NULL column
\* refuses it.
users_create(user_id, role) ==
    /\ tenant_request(user_id)
    /\ respond("users_create", user_id, 500, {}, <<>>)

\* UserViewSet.retrieve: GET /users/{pk}/
users_retrieve(user_id, pk) ==
    /\ tenant_request(user_id)
    /\ IF \E p \in db[schema_name].profiles : p.id = pk
       THEN respond("users_retrieve", user_id, 200, {}, <<pk>>)
       ELSE respond("users_retrieve", user_id, 404, {}, <<>>)

\* UserViewSet.update / partial_update: PUT|PATCH /users/{pk}/ with a role
users_update(user_id, pk, role) ==
    /\ tenant_request(user_id)
    /\ IF \E p \in db[schema_name].profiles : p.id = pk
       THEN /\ db' = [db EXCEPT ![schema_name].profiles =
                         {IF p.id = pk THEN [p EXCEPT !.role = role] ELSE p :
                              p \in @}]
            /\ last' = [op |-> "users_update", user |-> user_id, status |-> 200,
                        errors |-> {}, data |-> None,
                        body |-> <<pk>>]
            /\ UNCHANGED <<companies, domains, company_seq,
                           schema_name, now, queue, pending>>
       ELSE respond("users_update", user_id, 404, {}, <<>>)

\* UserViewSet.destroy: DELETE /users/{pk}/ deletes the profile row
users_destroy(user_id, pk) ==
    /\ tenant_request(user_id)
    /\ db[schema_name].seq.profiles < MaxProfiles
    /\ IF \E p \in db[schema_name].profiles : p.id = pk
       THEN /\ db' = [db EXCEPT ![schema_name].profiles =
                         {p \in @ : p.id # pk}]
            /\ last' = [op |-> "users_destroy", user |-> user_id,
                        status |-> 204,
                        errors |-> {}, data |-> None,
                        body |-> <<pk>>]
            /\ UNCHANGED <<companies, domains, company_seq,
                           schema_name, now, queue, pending>>
       ELSE respond("users_destroy", user_id, 404, {}, <<>>)

\* UserViewSet.me: GET /users/me/
users_me(user_id) ==
    /\ tenant_request(user_id)
    /\ LET d == profile_get_or_create(db[schema_name], user_id)
       IN  /\ db' = [db EXCEPT ![schema_name] = d]
           /\ last' = [op |-> "users_me", user |-> user_id, status |-> 200,
                       errors |-> {}, data |-> None,
                       body |-> ids_ascending(
                                   {p.id : p \in ProfilesOf(d, user_id)})]
    /\ UNCHANGED <<companies, domains, company_seq, schema_name, now,
                   queue, pending>>

UsersList == \E user_id \in UserIds : users_list(user_id)

UsersCreate ==
    \E user_id \in UserIds, role \in Roles : users_create(user_id, role)

UsersRetrieve ==
    \E user_id \in UserIds, pk \in ProfileIds : users_retrieve(user_id, pk)

UsersUpdate ==
    \E user_id \in UserIds, pk \in ProfileIds, role \in Roles :
        users_update(user_id, pk, role)

UsersDestroy ==
    \E user_id \in UserIds, pk \in ProfileIds : users_destroy(user_id, pk)

UsersMe == \E user_id \in UserIds : users_me(user_id)

-----------------------------------------------------------------------------
(* Projects: /projects/ *)

NoUser == 0
NoTime == -1

ProjectIds == 1 .. (MaxProjects + 1)
ProjectStatusInputs == {"planning", "active"}

\* The row of table `rows` with primary key pk.
row(rows, pk) == CHOOSE r \in rows : r.id = pk

\* Project.objects.filter(Q(owner=user) | Q(members=user)): project id ->
\* the number of rows of the join with the members table that match (one
\* joined row per member, one row with no member for an empty member set).
owner_or_member_rows(d, user_id) ==
    [pk \in {p.id : p \in d.projects} |->
        LET p == row(d.projects, pk)
        IN  IF p.members = {}
            THEN IF p.owner = user_id THEN 1 ELSE 0
            ELSE Cardinality({m \in p.members :
                                 p.owner = user_id \/ m = user_id})]

\* A mutant of distinct: the duplicates of the join stay.
distinct_missing(rows) == rows

\* QuerySet.distinct()
distinct(rows) == [pk \in DOMAIN rows |-> IF rows[pk] > 0 THEN 1 ELSE 0]

\* ProjectViewSet.get_queryset
project_queryset(d, user_id) == distinct(owner_or_member_rows(d, user_id))

\* The rows of a queryset as the list it is serialized to, in the model's
\* ordering (-created_at: the newest id first), each id as often as it has
\* rows.
RECURSIVE as_list(_)
as_list(rows) ==
    IF DOMAIN rows = {} THEN <<>>
    ELSE LET m == CHOOSE x \in DOMAIN rows : \A y \in DOMAIN rows : x >= y
         IN  [i \in 1 .. rows[m] |-> m]
             \o as_list([pk \in DOMAIN rows \ {m} |-> rows[pk]])

\* get_object(): 404 when the queryset has no row with this pk, the object
\* when it has one (a queryset with several raises MultipleObjectsReturned).
get_object_status(rows, pk) ==
    IF pk \notin DOMAIN rows \/ rows[pk] = 0 THEN 404
    ELSE IF rows[pk] = 1 THEN 200
    ELSE 500

\* A mutant of has_object_permission: members may write as they may read.
has_object_permission_members_write(project, user_id, safe_method) ==
    project.owner = user_id \/ user_id \in project.members

\* IsProjectOwnerOrMember.has_object_permission
has_object_permission(project, user_id, safe_method) ==
    IF safe_method
    THEN project.owner = user_id \/ user_id \in project.members
    ELSE project.owner = user_id

\* ProjectSerializer.member_ids: every id must be an identity's
valid_member_ids(d, data) ==
    data.member_ids \subseteq {u.id : u \in d.users}

\* The ids a request may name as an identity: two of the namespace's
\* identities and one that is nobody's.
TargetIds == 2 .. (MaxUsers + 2)

\* The payloads tried by the model: a status and, when has_member_ids, the
\* member set (two identities, or an id that is nobody's).
ProjectInputs ==
    {data \in [status : ProjectStatusInputs, has_member_ids : BOOLEAN,
               member_ids : {{}, {2, 3}, {MaxUsers + 2}}] :
        data.has_member_ids <=> data.member_ids # {}}

\* The database changes of a tenant request that answers with op, status
\* and body.
tenant_write(op, user_id, status, body, d) ==
    /\ db' = [db EXCEPT ![schema_name] = d]
    /\ last' = [op |-> op, user |-> user_id, status |-> status,
                errors |-> {}, data |-> None, body |-> body]
    /\ UNCHANGED <<companies, domains, company_seq, schema_name, now,
                   queue, pending>>

\* ProjectViewSet.create: POST /projects/, the caller becomes the owner
project_create(user_id, data) ==
    /\ tenant_request(user_id)
    /\ db[schema_name].seq.projects < MaxProjects
    /\ LET d == db[schema_name]
           id == d.seq.projects + 1
       IN  IF ~ valid_member_ids(d, data)
           THEN respond("project_create", user_id, 400, {"member_ids"}, <<>>)
           ELSE tenant_write("project_create", user_id, 201, <<id>>,
                    [d EXCEPT !.projects = @ \cup
                                  {[id |-> id, status |-> data.status,
                                    owner |-> user_id,
                                    members |-> data.member_ids]},
                              !.seq.projects = id])

\* ProjectViewSet.list: GET /projects/
project_list(user_id) ==
    /\ tenant_request(user_id)
    /\ respond("project_list", user_id, 200, {},
               as_list(project_queryset(db[schema_name], user_id)))

\* ProjectViewSet.retrieve: GET /projects/{pk}/
project_retrieve(user_id, pk) ==
    /\ tenant_request(user_id)
    /\ LET found == get_object_status(
                        project_queryset(db[schema_name], user_id), pk)
       IN  respond("project_retrieve", user_id, found, {},
                   IF found = 200 THEN <<pk>> ELSE <<>>)

\* ProjectViewSet.update / partial_update: PUT|PATCH /projects/{pk}/
project_update(user_id, pk, data) ==
    /\ tenant_request(user_id)
    /\ LET d == db[schema_name]
           found == get_object_status(project_queryset(d, user_id), pk)
       IN  IF found # 200
           THEN respond("project_update", user_id, found, {}, <<>>)
           ELSE IF ~ has_object_permission(row(d.projects, pk), user_id,
                                           FALSE)
           THEN respond("project_update", user_id, 403, {}, <<>>)
           ELSE IF ~ valid_member_ids(d, data)
           THEN respond("project_update", user_id, 400, {"member_ids"}, <<>>)
           ELSE tenant_write("project_update", user_id, 200, <<pk>>,
                    [d EXCEPT !.projects =
                        {IF p.id # pk THEN p
                         ELSE [p EXCEPT !.status = data.status,
                                        !.members = IF data.has_member_ids
                                                    THEN data.member_ids
                                                    ELSE @] : p \in @}])

\* Project.delete(): Task.project is on_delete=CASCADE
project_delete(d, pk) ==
    [d EXCEPT !.projects = {p \in @ : p.id # pk},
              !.tasks = {t \in @ : t.project # pk}]

\* ProjectViewSet.destroy: DELETE /projects/{pk}/
project_destroy(user_id, pk) ==
    /\ tenant_request(user_id)
    /\ LET d == db[schema_name]
           found == get_object_status(project_queryset(d, user_id), pk)
       IN  IF found # 200
           THEN respond("project_destroy", user_id, found, {}, <<>>)
           ELSE IF ~ has_object_permission(row(d.projects, pk), user_id,
                                           FALSE)
           THEN respond("project_destroy", user_id, 403, {}, <<>>)
           ELSE tenant_write("project_destroy", user_id, 204, <<>>,
                             project_delete(d, pk))

\* A mutant of add_member_forbidden: any caller who sees the project passes.
add_member_forbidden_never(project, user_id) == FALSE

\* add_member: "Only owner can add members"
add_member_forbidden(project, user_id) == project.owner # user_id

\* remove_member: "Only owner can remove members"
remove_member_forbidden(project, user_id) == project.owner # user_id

\* ProjectViewSet.add_member: POST /projects/{pk}/add_member/
\* (target NoUser: no user_id in the payload)
add_member(user_id, pk, target) ==
    /\ tenant_request(user_id)
    /\ LET d == db[schema_name]
           found == get_object_status(project_queryset(d, user_id), pk)
       IN  IF found # 200
           THEN respond("add_member", user_id, found, {}, <<>>)
           ELSE IF add_member_forbidden(row(d.projects, pk), user_id)
           THEN respond("add_member", user_id, 403, {}, <<>>)
           ELSE IF ~ \E u \in d.users : u.id = target
           THEN respond("add_member", user_id, 404, {}, <<>>)
           ELSE tenant_write("add_member", user_id, 200, <<pk>>,
                    [d EXCEPT !.projects =
                        {IF p.id # pk THEN p
                         ELSE [p EXCEPT !.members = @ \cup {target}] :
                             p \in @}])

\* ProjectViewSet.remove_member: POST /projects/{pk}/remove_member/
remove_member(user_id, pk, target) ==
    /\ tenant_request(user_id)
    /\ LET d == db[schema_name]
           found == get_object_status(project_queryset(d, user_id), pk)
       IN  IF found # 200
           THEN respond("remove_member", user_id, found, {}, <<>>)
           ELSE IF remove_member_forbidden(row(d.projects, pk), user_id)
           THEN respond("remove_member", user_id, 403, {}, <<>>)
           ELSE IF ~ \E u \in d.users : u.id = target
           THEN respond("remove_member", user_id, 404, {}, <<>>)
           ELSE tenant_write("remove_member", user_id, 200, <<pk>>,
                    [d EXCEPT !.projects =
                        {IF p.id # pk THEN p
                         ELSE [p EXCEPT !.members = @ \ {target}] :
                             p \in @}])

TaskStatuses == <<"todo", "in_progress", "review", "done">>
TaskPriorities == <<"low", "medium", "high", "urgent">>

\* ProjectViewSet.statistics: total_tasks, the count of the project's tasks
\* in each status, then in each priority
statistics_body(d, pk) ==
    LET tasks == {t \in d.tasks : t.project = pk}
    IN  <<Cardinality(tasks)>>
        \o [i \in 1 .. 4 |->
               Cardinality({t \in tasks : t.status = TaskStatuses[i]})]
        \o [i \in 1 .. 4 |->
               Cardinality({t \in tasks : t.priority = TaskPriorities[i]})]

\* ProjectViewSet.statistics: GET /projects/{pk}/statistics/
statistics(user_id, pk) ==
    /\ tenant_request(user_id)
    /\ LET d == db[schema_name]
           found == get_object_status(project_queryset(d, user_id), pk)
       IN  respond("statistics", user_id, found, {},
                   IF found = 200 THEN statistics_body(d, pk) ELSE <<>>)

ProjectCreate ==
    \E user_id \in UserIds, data \in ProjectInputs :
        project_create(user_id, data)

ProjectList == \E user_id \in UserIds : project_list(user_id)

ProjectRetrieve ==
    \E user_id \in UserIds, pk \in ProjectIds : project_retrieve(user_id, pk)

ProjectUpdate ==
    \E user_id \in UserIds, pk \in ProjectIds, data \in ProjectInputs :
        project_update(user_id, pk, data)

ProjectDestroy ==
    \E user_id \in UserIds, pk \in ProjectIds : project_destroy(user_id, pk)

AddMember ==
    \E user_id \in UserIds, pk \in ProjectIds,
       target \in TargetIds :
        add_member(user_id, pk, target)

RemoveMember ==
    \E user_id \in UserIds, pk \in ProjectIds,
       target \in TargetIds :
        remove_member(user_id, pk, target)

Statistics ==
    \E user_id \in UserIds, pk \in ProjectIds : statistics(user_id, pk)

-----------------------------------------------------------------------------
(* Tasks: /tasks/ *)

\* A mutant of validate_project: any project is accepted.
validate_project_any(project, user_id) == TRUE

\* TaskSerializer.validate_project
validate_project(project, user_id) ==
    ~ (project.owner # user_id /\ user_id \notin project.members)

\* The payloads tried by the model.
TaskInputs ==
    [project : ProjectIds, status : {"todo", "done"},
     priority : {"medium"}, assigned_to : {NoUser},
     due_date : {NoTime}, completed_at : {NoTime}]

\* TaskViewSet.create: POST /tasks/, the caller becomes created_by
task_create(user_id, data) ==
    /\ tenant_request(user_id)
    /\ db[schema_name].seq.tasks < MaxTasks
    /\ LET d == db[schema_name]
           id == d.seq.tasks + 1
       IN  IF \/ ~ \E p \in d.projects : p.id = data.project
              \/ ~ validate_project(row(d.projects, data.project), user_id)
           THEN respond("task_create", user_id, 400, {"project"}, <<>>)
           ELSE tenant_write("task_create", user_id, 201, <<id>>,
                    [d EXCEPT !.tasks = @ \cup
                                  {[id |-> id, project |-> data.project,
                                    priority |-> data.priority,
                                    status |-> data.status,
                                    assigned_to |-> data.assigned_to,
                                    created_by |-> user_id,
                                    due_date |-> data.due_date,
                                    completed_at |-> data.completed_at,
                                    created_at |-> now]},
                              !.seq.tasks = id])

TaskCreate ==
    \E user_id \in UserIds, data \in TaskInputs : task_create(user_id, data)

\* A field the payload (or the query string) does not carry.
Absent == -2

\* The clock stops at MaxTime.
MaxTime == 1

\* timezone.now() moves on between two requests.
Tick ==
    /\ now < MaxTime
    /\ now' = now + 1
    /\ last' = [op |-> "tick", user |-> NoUser, status |-> 0, errors |-> {},
                data |-> None, body |-> <<>>]
    /\ UNCHANGED <<companies, domains, company_seq, db, schema_name,
                   queue, pending>>

\* Project.objects.filter(Q(owner=user) | Q(members=user)) used as the
\* right-hand side of project__in: the ids of the projects with a row.
accessible_projects(d, user_id) ==
    {pk \in DOMAIN owner_or_member_rows(d, user_id) :
        owner_or_member_rows(d, user_id)[pk] > 0}

\* A mutant of task_queryset: the tasks of every project.
task_queryset_all(d, user_id) == d.tasks

\* TaskViewSet.get_queryset with no query parameter
task_queryset(d, user_id) ==
    {t \in d.tasks : t.project \in accessible_projects(d, user_id)}

\* get_object() on a set of task rows
task_get_object_status(rows, pk) ==
    IF \E t \in rows : t.id = pk THEN 200 ELSE 404

\* IsTaskProjectMember.has_object_permission
has_task_permission(d, task, user_id) ==
    LET project == row(d.projects, task.project)
    IN  project.owner = user_id \/ user_id \in project.members

TaskIds == 1 .. (MaxTasks + 1)

\* The project ids a task payload may name: the projects and one missing.
TaskProjectInputs == 1 .. (MaxProjects + 2)

\* The task payloads tried on the task endpoints; project, status,
\* assigned_to and completed_at may be left out. A payload carries at most
\* one of the last three, and then names project 1 or none.
TaskWriteInputs ==
    {data \in [project : {Absent} \cup TaskProjectInputs,
               status : {None, "done"}, assigned_to : {Absent, 2},
               completed_at : {Absent, 0}] :
        LET given == {f \in {"status"} : data.status # None}
                     \cup {f \in {"assigned_to"} : data.assigned_to # Absent}
                     \cup {f \in {"completed_at"} :
                               data.completed_at # Absent}
        IN  /\ Cardinality(given) <= 1
            /\ given # {} => data.project \in {Absent, 1}}

\* TaskSerializer.is_valid: the errors of the payload. project is required
\* unless the update is partial, must exist and must pass validate_project.
task_errors(d, user_id, data, partial) ==
    IF data.project = Absent
    THEN {f \in {"project.required"} : ~ partial}
    ELSE IF ~ \E p \in d.projects : p.id = data.project
    THEN {"project.does_not_exist"}
    ELSE {f \in {"project.no_access"} :
             ~ validate_project(row(d.projects, data.project), user_id)}

\* ModelSerializer.update: the fields of the payload replace the task's.
task_updated(task, data) ==
    [task EXCEPT
        !.project = IF data.project = Absent THEN @ ELSE data.project,
        !.status = IF data.status = None THEN @ ELSE data.status,
        !.assigned_to = IF data.assigned_to = Absent THEN @
                        ELSE data.assigned_to,
        !.completed_at = IF data.completed_at = Absent THEN @
                         ELSE data.completed_at]

\* TaskViewSet.create with a payload of TaskWriteInputs: the fields left
\* out take the model's defaults.
task_create_from(user_id, data) ==
    data.project # Absent /\
    task_create(user_id,
        [project |-> data.project,
         status |-> IF data.status = None THEN "todo" ELSE data.status,
         priority |-> "medium",
         assigned_to |-> IF data.assigned_to = Absent THEN NoUser
                         ELSE data.assigned_to,
         due_date |-> NoTime,
         completed_at |-> IF data.completed_at = Absent THEN NoTime
                          ELSE data.completed_at])

\* TaskViewSet.update (partial = FALSE) / partial_update (partial = TRUE):
\* PUT|PATCH /tasks/{pk}/
task_update(user_id, pk, data, partial) ==
    /\ tenant_request(user_id)
    /\ LET d == db[schema_name]
           op == IF partial THEN "task_partial_update" ELSE "task_update"
           found == task_get_object_status(task_queryset(d, user_id), pk)
       IN  IF found # 200
           THEN respond(op, user_id, found, {}, <<>>)
           ELSE IF ~ has_task_permission(d, row(d.tasks, pk), user_id)
           THEN respond(op, user_id, 403, {}, <<>>)
           ELSE IF task_errors(d, user_id, data, partial) # {}
           THEN respond(op, user_id, 400,
                        task_errors(d, user_id, data, partial), <<>>)
           ELSE tenant_write(op, user_id, 200, <<pk>>,
                    [d EXCEPT !.tasks = {IF t.id # pk THEN t
                                         ELSE task_updated(t, data) :
                                             t \in @}])

\* TaskViewSet.destroy: DELETE /tasks/{pk}/
task_destroy(user_id, pk) ==
    /\ tenant_request(user_id)
    /\ LET d == db[schema_name]
           found == task_get_object_status(task_queryset(d, user_id), pk)
       IN  IF found # 200
           THEN respond("task_destroy", user_id, found, {}, <<>>)
           ELSE IF ~ has_task_permission(d, row(d.tasks, pk), user_id)
           THEN respond("task_destroy", user_id, 403, {}, <<>>)
           ELSE tenant_write("task_destroy", user_id, 204, <<>>,
                             [d EXCEPT !.tasks = {t \in @ : t.id # pk}])

\* A mutant of task_completed: the status changes, the stamp does not.
task_completed_unstamped(task, at) == [task EXCEPT !.status = "done"]

\* mark_complete: task.status = 'done'; task.completed_at = timezone.now()
task_completed(task, at) ==
    [task EXCEPT !.status = "done", !.completed_at = at]

\* TaskViewSet.mark_complete: POST /tasks/{pk}/mark_complete/
mark_complete(user_id, pk) ==
    /\ tenant_request(user_id)
    /\ LET d == db[schema_name]
           found == task_get_object_status(task_queryset(d, user_id), pk)
       IN  IF found # 200
           THEN respond("mark_complete", user_id, found, {}, <<>>)
           ELSE tenant_write("mark_complete", user_id, 200, <<pk>>,
                    [d EXCEPT !.tasks =
                        {IF t.id # pk THEN t
                         ELSE task_completed(t, now) : t \in @}])

TaskCreateFrom ==
    \E user_id \in UserIds, data \in TaskWriteInputs :
        task_create_from(user_id, data)

TaskUpdate ==
    \E user_id \in UserIds, pk \in 1 .. MaxTasks, data \in TaskWriteInputs :
        task_update(user_id, pk, data, FALSE)

TaskPartialUpdate ==
    \E user_id \in UserIds, pk \in 1 .. MaxTasks, data \in TaskWriteInputs :
        task_update(user_id, pk, data, TRUE)

TaskDestroy ==
    \E user_id \in UserIds, pk \in TaskIds : task_destroy(user_id, pk)

MarkComplete ==
    \E user_id \in UserIds, pk \in TaskIds : mark_complete(user_id, pk)

\* The owner of project 1 adds identity 2 to it or removes it.
MemberChange ==
    \E user_id \in UserIds :
        add_member(user_id, 1, 2) \/ remove_member(user_id, 1, 2)

-----------------------------------------------------------------------------
(* Task lists and the dashboard *)

\* The query parameter assigned_to=me
Me == -3

\* The query strings tried on the task lists: project, status and
\* assigned_to, each of which may be left out.
TaskQueryInputs ==
    [project : {Absent, 1}, status : {None, "todo"},
     assigned_to : {Absent, Me, 2}]

\* A mutant of task_filtered: assigned_to=me looks through every task.
task_filtered_assigned_anywhere(d, user_id, params) ==
    {t \in IF params.assigned_to = Me THEN d.tasks
           ELSE task_queryset(d, user_id) :
        /\ params.project # Absent => t.project = params.project
        /\ params.status # None => t.status = params.status
        /\ params.assigned_to = Me => t.assigned_to = user_id
        /\ params.assigned_to \notin {Absent, Me}
               => t.assigned_to = params.assigned_to}

\* TaskViewSet.get_queryset: the accessible tasks, then one filter for each
\* query parameter given
task_filtered(d, user_id, params) ==
    LET accessible == task_queryset(d, user_id)
        by_project == IF params.project = Absent THEN accessible
                      ELSE {t \in accessible : t.project = params.project}
        by_status == IF params.status = None THEN by_project
                     ELSE {t \in by_project : t.status = params.status}
    IN  IF params.assigned_to = Absent THEN by_status
        ELSE IF params.assigned_to = Me
        THEN {t \in by_status : t.assigned_to = user_id}
        ELSE {t \in by_status : t.assigned_to = params.assigned_to}

\* The ids of a set of rows in the order -created_at (the newest id first)
RECURSIVE ids_descending(_)
ids_descending(S) ==
    IF S = {} THEN <<>>
    ELSE LET m == CHOOSE x \in S : \A y \in S : x >= y
         IN  <<m>> \o ids_descending(S \ {m})

\* TaskViewSet.list: GET /tasks/?project=&status=&assigned_to=
task_list(user_id, params) ==
    /\ tenant_request(user_id)
    /\ respond("task_list", user_id, 200, {},
               ids_descending({t.id : t \in task_filtered(db[schema_name],
                                                          user_id, params)}))

\* TaskViewSet.my_tasks: GET /tasks/my_tasks/
my_tasks(user_id, params) ==
    /\ tenant_request(user_id)
    /\ respond("my_tasks", user_id, 200, {},
               ids_descending(
                   {t.id : t \in {x \in task_filtered(db[schema_name],
                                                      user_id, params) :
                                     x.assigned_to = user_id}}))

\* queryset[:5]
first5(list) == SubSeq(list, 1, IF Len(list) < 5 THEN Len(list) ELSE 5)

\* dashboard_stats: total_projects, total_tasks, my_tasks.total, .todo,
\* .in_progress and .done, then the ids of projects[:5] and of
\* recent_tasks[:5]
dashboard_body(d, user_id) ==
    LET projects == project_queryset(d, user_id)
        total_projects == Len(as_list(projects))
        all_tasks == {t \in d.tasks :
                         t.project \in {pk \in DOMAIN projects :
                                           projects[pk] > 0}}
        mine == {t \in all_tasks : t.assigned_to = user_id}
    IN  <<total_projects, Cardinality(all_tasks), Cardinality(mine),
          Cardinality({t \in mine : t.status = "todo"}),
          Cardinality({t \in mine : t.status = "in_progress"}),
          Cardinality({t \in mine : t.status = "done"})>>
        \o first5(as_list(projects))
        \o first5(ids_descending({t.id : t \in mine}))

\* dashboard_stats: GET /dashboard/
dashboard_stats(user_id) ==
    /\ tenant_request(user_id)
    /\ respond("dashboard_stats", user_id, 200, {},
               dashboard_body(db[schema_name], user_id))

\* User.delete() with the on_delete of every relation to the identity: its
\* profile, the projects it owns (with their tasks) and the tasks it
\* created go, its memberships go, the tasks assigned to it stay unassigned.
user_delete(d, user_id) ==
    LET projects == {p \in d.projects : p.owner # user_id}
        tasks == {t \in d.tasks :
                     /\ t.created_by # user_id
                     /\ \E p \in projects : p.id = t.project}
    IN  [d EXCEPT
            !.users = {u \in @ : u.id # user_id},
            !.profiles = {p \in @ : p.user # user_id},
            !.projects = {[p EXCEPT !.members = @ \ {user_id}] :
                             p \in projects},
            !.tasks = {IF t.assigned_to = user_id
                       THEN [t EXCEPT !.assigned_to = NoUser] ELSE t :
                           t \in tasks}]

\* An identity deleted directly (the admin site, a shell) on the
\* connection's current namespace.
direct_delete_user(user_id) ==
    /\ schema_name \in DOMAIN db
    /\ \E u \in db[schema_name].users : u.id = user_id
    /\ tenant_write("delete_user", NoUser, 0, <<user_id>>,
                    user_delete(db[schema_name], user_id))

TaskList ==
    \E user_id \in UserIds, params \in TaskQueryInputs :
        task_list(user_id, params)

MyTasks ==
    \E user_id \in UserIds, params \in TaskQueryInputs :
        my_tasks(user_id, params)

DashboardStats == \E user_id \in UserIds : dashboard_stats(user_id)

DeleteUser == \E user_id \in UserIds : direct_delete_user(user_id)

-----------------------------------------------------------------------------
(* The registry endpoints: /companies/ and /domains/ *)

\* The registry endpoints are served on the public namespace to an
\* identity of it.
public_request(user_id) ==
    /\ schema_name = Public
    /\ \E u \in db[Public].users : u.id = user_id

\* rest_framework.permissions.IsAdminUser (permission_classes of both
\* viewsets): the identity is staff
is_admin_user(user) == user.is_staff

\* CompanyViewSet.get_queryset: every company for a superuser, none for
\* anyone else
company_queryset(user) == IF user.is_superuser THEN companies ELSE {}

\* DomainViewSet.queryset = Domain.objects.all()
domain_queryset(user) == domains

\* A response of a registry endpoint that writes the two shared tables.
registry_write(op, user_id, status, body, new_companies, new_domains) ==
    /\ companies' = new_companies
    /\ domains' = new_domains
    /\ last' = [op |-> op, user |-> user_id, status |-> status,
                errors |-> {}, data |-> None, body |-> body]
    /\ UNCHANGED <<company_seq, db, schema_name, now, queue, pending>>

\* What a registry endpoint answers to the identity: 403 unless
\* IsAdminUser lets it in, else `served`.
registry_request(op, user_id, served) ==
    /\ public_request(user_id)
    /\ IF ~ is_admin_user(row(db[Public].users, user_id))
       THEN respond(op, user_id, 403, {}, <<>>)
       ELSE served

CompanyIds == 1 .. (MaxCompanies + 1)

\* CompanyViewSet.list: GET /companies/
companies_list(user_id) ==
    registry_request("companies_list", user_id,
        respond("companies_list", user_id, 200, {},
                ids_ascending({c.id : c \in company_queryset(
                                   row(db[Public].users, user_id))})))

\* CompanyViewSet.create: POST /companies/. schema_name is read-only in
\* CompanySerializer, so the row is saved with an empty schema_name, for
\* which no namespace can be created: the save fails and leaves no row.
companies_create(user_id) ==
    registry_request("companies_create", user_id,
        respond("companies_create", user_id, 500, {}, <<>>))

\* CompanyViewSet.retrieve: GET /companies/{pk}/
companies_retrieve(user_id, pk) ==
    registry_request("companies_retrieve", user_id,
        IF \E c \in company_queryset(row(db[Public].users, user_id)) :
               c.id = pk
        THEN respond("companies_retrieve", user_id, 200, {}, <<pk>>)
        ELSE respond("companies_retrieve", user_id, 404, {}, <<>>))

\* CompanyViewSet.update / partial_update: PUT|PATCH /companies/{pk}/ with
\* is_active
companies_update(user_id, pk, is_active) ==
    registry_request("companies_update", user_id,
        IF \E c \in company_queryset(row(db[Public].users, user_id)) :
               c.id = pk
        THEN registry_write("companies_update", user_id, 200, <<pk>>,
                 {IF c.id = pk THEN [c EXCEPT !.is_active = is_active]
                  ELSE c : c \in companies},
                 domains)
        ELSE respond("companies_update", user_id, 404, {}, <<>>))

\* CompanyViewSet.destroy: DELETE /companies/{pk}/. The company's domains
\* go with it; auto_drop_schema is False, the namespace stays.
companies_destroy(user_id, pk) ==
    registry_request("companies_destroy", user_id,
        IF \E c \in company_queryset(row(db[Public].users, user_id)) :
               c.id = pk
        THEN registry_write("companies_destroy", user_id, 204, <<>>,
                 {c \in companies : c.id # pk},
                 {dm \in domains : dm.tenant # pk})
        ELSE respond("companies_destroy", user_id, 404, {}, <<>>))

\* DomainMixin.save: a tenant's first domain is primary, and a primary
\* domain takes the mark from the tenant's other domains.
domain_save(rows, dm) ==
    LET others == {x \in rows : x.domain # dm.domain}
        primary == dm.is_primary
                   \/ ~ \E x \in others : x.tenant = dm.tenant /\ x.is_primary
    IN  {IF x.tenant = dm.tenant /\ primary
         THEN [x EXCEPT !.is_primary = FALSE] ELSE x : x \in others}
        \cup {[dm EXCEPT !.is_primary = primary]}

\* The tenant ids of a set of Domain rows, as the list serialized.
RECURSIVE tenants_of(_)
tenants_of(rows) ==
    IF rows = {} THEN <<>>
    ELSE LET dm == CHOOSE x \in rows :
                       \A y \in rows : x.tenant <= y.tenant
         IN  <<dm.tenant>> \o tenants_of(rows \ {dm})

\* DomainViewSet.list: GET /domains/
domains_list(user_id) ==
    registry_request("domains_list", user_id,
        respond("domains_list", user_id, 200, {},
                tenants_of(domain_queryset(row(db[Public].users, user_id)))))

\* DomainViewSet.create: POST /domains/ with domain, tenant, is_primary
domains_create(user_id, data) ==
    registry_request("domains_create", user_id,
        IF \/ \E dm \in domains : dm.domain = data.domain
           \/ ~ \E c \in companies : c.id = data.tenant
        THEN respond("domains_create", user_id, 400, {}, <<>>)
        ELSE registry_write("domains_create", user_id, 201,
                            <<data.tenant>>, companies,
                            domain_save(domains, data)))

\* DomainViewSet.retrieve: GET /domains/{pk}/ (the row is named by its
\* domain here)
domains_retrieve(user_id, domain) ==
    registry_request("domains_retrieve", user_id,
        IF \E dm \in domain_queryset(row(db[Public].users, user_id)) :
               dm.domain = domain
        THEN respond("domains_retrieve", user_id, 200, {},
                     tenants_of({dm \in domains : dm.domain = domain}))
        ELSE respond("domains_retrieve", user_id, 404, {}, <<>>))

\* DomainViewSet.update / partial_update: PUT|PATCH /domains/{pk}/ with
\* is_primary
domains_update(user_id, domain, is_primary) ==
    registry_request("domains_update", user_id,
        IF \E dm \in domain_queryset(row(db[Public].users, user_id)) :
               dm.domain = domain
        THEN LET dm == CHOOSE x \in domains : x.domain = domain
             IN  registry_write("domains_update", user_id, 200,
                     <<dm.tenant>>, companies,
                     domain_save(domains,
                                 [dm EXCEPT !.is_primary = is_primary]))
        ELSE respond("domains_update", user_id, 404, {}, <<>>))

\* DomainViewSet.destroy: DELETE /domains/{pk}/
domains_destroy(user_id, domain) ==
    registry_request("domains_destroy", user_id,
        IF \E dm \in domain_queryset(row(db[Public].users, user_id)) :
               dm.domain = domain
        THEN registry_write("domains_destroy", user_id, 204, <<>>,
                            companies,
                            {dm \in domains : dm.domain # domain})
        ELSE respond("domains_destroy", user_id, 404, {}, <<>>))

\* The Domain payloads tried: a new name or a taken one, for a company or
\* for none.
DomainWriteInputs ==
    [domain : {<<"a", ".", "x">>, <<"c", ".", "x">>}, tenant : CompanyIds,
     is_primary : BOOLEAN]

\* The names a Domain row is asked for by.
DomainNames == {<<"a", ".", "x">>, <<"c", ".", "x">>, <<"z", ".", "x">>}

CompaniesList == \E user_id \in UserIds : companies_list(user_id)

CompaniesCreate == \E user_id \in UserIds : companies_create(user_id)

CompaniesRetrieve ==
    \E user_id \in UserIds, pk \in CompanyIds :
        companies_retrieve(user_id, pk)

CompaniesUpdate ==
    \E user_id \in UserIds, pk \in CompanyIds, is_active \in BOOLEAN :
        companies_update(user_id, pk, is_active)

CompaniesDestroy ==
    \E user_id \in UserIds, pk \in CompanyIds :
        companies_destroy(user_id, pk)

DomainsList == \E user_id \in UserIds : domains_list(user_id)

DomainsCreate ==
    \E user_id \in UserIds, data \in DomainWriteInputs :
        domains_create(user_id, data)

DomainsRetrieve ==
    \E user_id \in UserIds, domain \in DomainNames :
        domains_retrieve(user_id, domain)

DomainsUpdate ==
    \E user_id \in UserIds, domain \in DomainNames, is_primary \in BOOLEAN :
        domains_update(user_id, domain, is_primary)

DomainsDestroy ==
    \E user_id \in UserIds, domain \in DomainNames :
        domains_destroy(user_id, domain)

-----------------------------------------------------------------------------
(* Background jobs *)

\* django_tenants schema_context: the namespace the connection is on once
\* the with block has been left, by its end or by an exception.
schema_context(previous, inside) == previous

\* send_task_reminder_email(task_id, tenant_schema): the task is looked up
\* in tenant_schema; a missing task (or namespace) raises, an assignee with
\* an email address is mailed.
send_task_reminder_email(task_id, tenant_schema) ==
    LET found == /\ tenant_schema \in DOMAIN db
                 /\ \E t \in db[tenant_schema].tasks : t.id = task_id
        task == row(db[tenant_schema].tasks, task_id)
        mailed == /\ task.assigned_to # NoUser
                  /\ row(db[tenant_schema].users, task.assigned_to).email # ""
    IN  /\ schema_name' = schema_context(schema_name, tenant_schema)
        /\ last' = [op |-> "send_task_reminder_email", user |-> NoUser,
                    status |-> IF found THEN 200 ELSE 500, errors |-> {},
                    data |-> IF ~ found THEN "DoesNotExist"
                             ELSE IF mailed THEN "sent" ELSE None,
                    body |-> <<>>]
        /\ UNCHANGED <<companies, domains, company_seq, db, now, pending>>

\* The number of messages the queue holds at most.
MaxQueue == 3

\* The namespaces of the active companies.
active_schemas == {c.schema_name : c \in {x \in companies : x.is_active}}

\* A mutant of overdue: a task that is done counts as well.
overdue_done_too(task, at) ==
    task.due_date # NoTime /\ task.due_date < at

\* check_overdue_tasks: due_date__lt=now, status__in todo, in_progress,
\* review
overdue(task, at) ==
    /\ task.due_date # NoTime
    /\ task.due_date < at
    /\ task.status \in {"todo", "in_progress", "review"}

\* The messages check_overdue_tasks enqueues in the namespaces it gets
\* through: one send_task_reminder_email.delay(task.id, schema_name) for
\* each overdue task with an assignee.
reminders(schemas) ==
    UNION {{[task_id |-> t.id, tenant_schema |-> s] :
               t \in {x \in db[s].tasks :
                         overdue(x, now) /\ x.assigned_to # NoUser}} :
              s \in schemas}

\* check_overdue_tasks(): every active company's namespace is searched;
\* the namespaces of `failed` raise, which is logged, and the loop goes on.
\* The answer counts the overdue tasks found.
check_overdue_tasks(failed) ==
    LET done == active_schemas \ failed
        found == UNION {{<<s, t.id>> :
                            t \in {x \in db[s].tasks : overdue(x, now)}} :
                           s \in done}
    IN  /\ failed \subseteq active_schemas
        /\ BagCardinality(queue) + Cardinality(reminders(done)) <= MaxQueue
        /\ queue' = queue (+) SetToBag(reminders(done))
        /\ schema_name' = schema_context(schema_name, Public)
        /\ last' = [op |-> "check_overdue_tasks", user |-> NoUser,
                    status |-> 200, errors |-> {},
                    data |-> IF failed = {} THEN None ELSE "logged",
                    body |-> <<Cardinality(found)>>]
        /\ UNCHANGED <<companies, domains, company_seq, db, now, pending>>

\* The age cleanup_old_data is run with: days=90.
CleanupDays == {90}

\* A mutant of old_done: the status is not looked at.
old_done_any_status(task, cutoff) ==
    task.completed_at # NoTime /\ task.completed_at < cutoff

\* cleanup_old_data: status='done', completed_at__lt=cutoff_date
old_done(task, cutoff) ==
    /\ task.status = "done"
    /\ task.completed_at # NoTime
    /\ task.completed_at < cutoff

\* cleanup_old_data(days): in every active company's namespace the tasks
\* done and completed before the cutoff are deleted; the namespaces of
\* `failed` raise, which is logged, and the loop goes on. The answer counts
\* the tasks deleted.
cleanup_old_data(days, failed) ==
    LET cutoff == now - days
        done == active_schemas \ failed
        deleted == UNION {{<<s, t.id>> :
                              t \in {x \in db[s].tasks :
                                        old_done(x, cutoff)}} : s \in done}
    IN  /\ failed \subseteq active_schemas
        /\ db' = [s \in DOMAIN db |->
                     IF s \in done
                     THEN [db[s] EXCEPT
                              !.tasks = {t \in @ : ~ old_done(t, cutoff)}]
                     ELSE db[s]]
        /\ schema_name' = schema_context(schema_name, Public)
        /\ last' = [op |-> "cleanup_old_data", user |-> NoUser,
                    status |-> 200, errors |-> {},
                    data |-> IF failed = {} THEN None ELSE "logged",
                    body |-> <<Cardinality(deleted)>>]
        /\ UNCHANGED <<companies, domains, company_seq, now, queue, pending>>

SendTaskReminderEmail ==
    \E task_id \in 1 .. MaxTasks, tenant_schema \in DOMAIN db :
        /\ send_task_reminder_email(task_id, tenant_schema)
        /\ UNCHANGED queue

\* A worker takes a message off the queue and runs the job it names.
RunReminder ==
    \E m \in BagToSet(queue) :
        /\ send_task_reminder_email(m.task_id, m.tenant_schema)
        /\ queue' = queue (-) SetToBag({m})

CheckOverdueTasks ==
    \E failed \in SUBSET active_schemas : check_overdue_tasks(failed)

CleanupOldData ==
    \E days \in CleanupDays, failed \in SUBSET active_schemas :
        cleanup_old_data(days, failed)

-----------------------------------------------------------------------------

Init ==
    /\ companies = {}
    /\ domains = {}
    /\ company_seq = 0
    /\ db = [s \in {Public} |-> EmptySchema]
    /\ schema_name = Public
    /\ now = 0
    /\ queue = EmptyBag
    /\ pending = {}
    /\ last = [op |-> "init", user |-> 0, status |-> 0,
               errors |-> {}, data |-> None,
               body |-> <<>>]

Next ==
    \/ Register
    \/ Route
    \/ CreateUser
    \/ UserRegister
    \/ SendTaskReminderEmail
    \/ CleanupOldData

Spec == Init /\ [][Next]_vars

-----------------------------------------------------------------------------
(* One tenant's user endpoints *)

\* The state company "a" is in once registered: its admin identity and the
\* profile the receiver gave it, the connection on its namespace.
TenantA == <<"a">>

InitUsers ==
    /\ companies = {[id |-> 1, schema_name |-> TenantA, is_active |-> TRUE]}
    /\ domains = {[domain |-> <<"a", ".", "x">>, tenant |-> 1,
                   is_primary |-> TRUE]}
    /\ company_seq = 1
    /\ db = [s \in {Public, TenantA} |->
                IF s = Public THEN EmptySchema
                ELSE create_user(EmptySchema, TenantA, "admin", "a@x",
                                 TRUE, TRUE).d]
    /\ schema_name = TenantA
    /\ now = 0
    /\ queue = EmptyBag
    /\ pending = {}
    /\ last = [op |-> "init", user |-> 0, status |-> 0,
               errors |-> {}, data |-> None,
               body |-> <<>>]

NextUsers ==
    \/ CreateUser
    \/ UserRegister
    \/ UsersList
    \/ UsersCreate
    \/ UsersRetrieve
    \/ UsersUpdate
    \/ UsersDestroy
    \/ UsersMe

SpecUsers == InitUsers /\ [][NextUsers]_vars

\* Registrations of tenant users served by several workers at once.
NextRegistrations == RegisterIsValid \/ RegisterSave

SpecRegistrations == InitUsers /\ [][NextRegistrations]_vars

-----------------------------------------------------------------------------
(* One tenant's projects and tasks *)

\* Company "a" with three identities: its admin and two created after it.
InitProjects ==
    /\ companies = {[id |-> 1, schema_name |-> TenantA, is_active |-> TRUE]}
    /\ domains = {[domain |-> <<"a", ".", "x">>, tenant |-> 1,
                   is_primary |-> TRUE]}
    /\ company_seq = 1
    /\ db = [s \in {Public, TenantA} |->
                IF s = Public THEN EmptySchema
                ELSE LET d1 == create_user(EmptySchema, TenantA, "admin",
                                           "a@x", TRUE, TRUE).d
                         d2 == create_user(d1, TenantA, "bob", "b@x",
                                           FALSE, FALSE).d
                     IN  create_user(d2, TenantA, "carol", "c@x",
                                     FALSE, FALSE).d]
    /\ schema_name = TenantA
    /\ now = 0
    /\ queue = EmptyBag
    /\ pending = {}
    /\ last = [op |-> "init", user |-> 0, status |-> 0, errors |-> {},
               data |-> None, body |-> <<>>]

NextProjects ==
    \/ ProjectCreate
    \/ ProjectList
    \/ ProjectRetrieve
    \/ ProjectUpdate
    \/ ProjectDestroy
    \/ AddMember
    \/ RemoveMember
    \/ Statistics
    \/ TaskCreate

SpecProjects == InitProjects /\ [][NextProjects]_vars

-----------------------------------------------------------------------------
(* One tenant's tasks *)

\* Company "a" with three identities and two projects: project 1 of
\* identity 1 with no member yet, project 2 of identity 3 with identity 1 as
\* its member.
InitTasks ==
    /\ companies = {[id |-> 1, schema_name |-> TenantA, is_active |-> TRUE]}
    /\ domains = {[domain |-> <<"a", ".", "x">>, tenant |-> 1,
                   is_primary |-> TRUE]}
    /\ company_seq = 1
    /\ db = [s \in {Public, TenantA} |->
                IF s = Public THEN EmptySchema
                ELSE LET d1 == create_user(EmptySchema, TenantA, "admin",
                                           "a@x", TRUE, TRUE).d
                         d2 == create_user(d1, TenantA, "bob", "b@x",
                                           FALSE, FALSE).d
                         d3 == create_user(d2, TenantA, "carol", "c@x",
                                           FALSE, FALSE).d
                     IN  [d3 EXCEPT
                             !.projects =
                                 {[id |-> 1, status |-> "planning",
                                   owner |-> 1, members |-> {}],
                                  [id |-> 2, status |-> "planning",
                                   owner |-> 3, members |-> {1}]},
                             !.seq.projects = 2]]
    /\ schema_name = TenantA
    /\ now = 0
    /\ queue = EmptyBag
    /\ pending = {}
    /\ last = [op |-> "init", user |-> 0, status |-> 0, errors |-> {},
               data |-> None, body |-> <<>>]

NextTasks ==
    \/ Tick
    \/ MemberChange
    \/ TaskCreateFrom
    \/ TaskUpdate
    \/ TaskPartialUpdate
    \/ TaskDestroy
    \/ MarkComplete

SpecTasks == InitTasks /\ [][NextTasks]_vars

-----------------------------------------------------------------------------
(* One tenant's task lists, dashboard and deletions *)

\* The tasks the tenant starts with: task 1 in either project, in one of
\* three statuses, unassigned or assigned to identity 1 or 2; task 2 a todo
\* task of either project assigned to identity 2. Each was created by the
\* owner of its project.
InitialTasks ==
    {{[id |-> 1, project |-> t1.project, priority |-> "medium",
       status |-> t1.status, assigned_to |-> t1.assigned_to,
       created_by |-> IF t1.project = 1 THEN 1 ELSE 3,
       due_date |-> NoTime,
       completed_at |-> IF t1.status = "done" THEN 0 ELSE NoTime,
       created_at |-> 0],
      [id |-> 2, project |-> p2, priority |-> "medium", status |-> "todo",
       assigned_to |-> 2, created_by |-> IF p2 = 1 THEN 1 ELSE 3,
       due_date |-> NoTime, completed_at |-> NoTime, created_at |-> 0]} :
        t1 \in [project : {1, 2}, status : {"todo", "review", "done"},
                assigned_to : {NoUser, 1, 2}],
        p2 \in {1, 2}}

\* Company "a" with three identities, project 1 of identity 1 with
\* identities 1 and 2 as members, project 2 of identity 3 with no member,
\* and two tasks.
InitViews ==
    /\ companies = {[id |-> 1, schema_name |-> TenantA, is_active |-> TRUE]}
    /\ domains = {[domain |-> <<"a", ".", "x">>, tenant |-> 1,
                   is_primary |-> TRUE]}
    /\ company_seq = 1
    /\ \E tasks \in InitialTasks :
        db = [s \in {Public, TenantA} |->
                IF s = Public THEN EmptySchema
                ELSE LET d1 == create_user(EmptySchema, TenantA, "admin",
                                           "a@x", TRUE, TRUE).d
                         d2 == create_user(d1, TenantA, "bob", "b@x",
                                           FALSE, FALSE).d
                         d3 == create_user(d2, TenantA, "carol", "c@x",
                                           FALSE, FALSE).d
                     IN  [d3 EXCEPT
                             !.projects =
                                 {[id |-> 1, status |-> "planning",
                                   owner |-> 1, members |-> {1, 2}],
                                  [id |-> 2, status |-> "planning",
                                   owner |-> 3, members |-> {}]},
                             !.tasks = tasks,
                             !.seq.projects = 2,
                             !.seq.tasks = 2]]
    /\ schema_name = TenantA
    /\ now = 0
    /\ queue = EmptyBag
    /\ pending = {}
    /\ last = [op |-> "init", user |-> 0, status |-> 0, errors |-> {},
               data |-> None, body |-> <<>>]

NextViews ==
    \/ TaskList
    \/ MyTasks
    \/ DashboardStats
    \/ ProjectDestroy
    \/ DeleteUser

SpecViews == InitViews /\ [][NextViews]_vars

-----------------------------------------------------------------------------
(* The periodic jobs over two companies *)

TenantB == <<"b">>

\* The namespace of a company: its admin identity, one project of the
\* admin and the tasks given, all created by the admin at time 0.
JobSchema(schema, tasks) ==
    LET d == create_user(EmptySchema, schema, "admin", "a@x", TRUE, TRUE).d
    IN  [d EXCEPT
            !.projects = {[id |-> 1, status |-> "active", owner |-> 1,
                           members |-> {}]},
            !.tasks = {[id |-> t.id, project |-> 1, priority |-> "medium",
                        status |-> t.status, assigned_to |-> t.assigned_to,
                        created_by |-> 1, due_date |-> t.due_date,
                        completed_at |-> t.completed_at,
                        created_at |-> 0] : t \in tasks},
            !.seq.projects = 1,
            !.seq.tasks = Cardinality(tasks)]

\* The tasks of company "a" on day 100: task 1 with no due date, one of
\* yesterday or one of tomorrow, unassigned or assigned, todo or done, with
\* no completion time or one 91, 90 or 89 days old; task 2 in review, due
\* yesterday and assigned.
TasksA ==
    {{t1, [id |-> 2, status |-> "review", assigned_to |-> 1,
           due_date |-> 99, completed_at |-> NoTime]} :
        t1 \in [id : {1}, status : {"todo", "done"},
                assigned_to : {NoUser, 1}, due_date : {NoTime, 99, 101},
                completed_at : {NoTime, 9, 10, 11}]}

\* The task of company "b": due yesterday and assigned, either todo or
\* done and completed 91 days ago.
TasksB ==
    {{[id |-> 1, status |-> "todo", assigned_to |-> 1, due_date |-> 99,
       completed_at |-> NoTime]},
     {[id |-> 1, status |-> "done", assigned_to |-> 1, due_date |-> 99,
       completed_at |-> 9]}}

\* Day 100: company "a" is active, company "b" active or not.
InitJobs ==
    /\ \E b_active \in BOOLEAN :
        companies = {[id |-> 1, schema_name |-> TenantA, is_active |-> TRUE],
                     [id |-> 2, schema_name |-> TenantB,
                      is_active |-> b_active]}
    /\ domains = {[domain |-> <<"a", ".", "x">>, tenant |-> 1,
                   is_primary |-> TRUE],
                  [domain |-> <<"b", ".", "x">>, tenant |-> 2,
                   is_primary |-> TRUE]}
    /\ company_seq = 2
    /\ \E a \in TasksA, b \in TasksB :
        db = [s \in {Public, TenantA, TenantB} |->
                IF s = Public THEN EmptySchema
                ELSE IF s = TenantA THEN JobSchema(TenantA, a)
                ELSE JobSchema(TenantB, b)]
    /\ schema_name = Public
    /\ now = 100
    /\ queue = EmptyBag
    /\ pending = {}
    /\ last = [op |-> "init", user |-> 0, status |-> 0, errors |-> {},
               data |-> None, body |-> <<>>]

NextJobs ==
    \/ CheckOverdueTasks
    \/ CleanupOldData
    \/ RunReminder

SpecJobs == InitJobs /\ [][NextJobs]_vars

-----------------------------------------------------------------------------
(* The registry endpoints *)

\* Company "a" is registered; the public namespace has three identities: a
\* superuser (createsuperuser: staff and superuser), a staff identity that
\* is no superuser, and an identity that is neither.
InitRegistry ==
    /\ companies = {[id |-> 1, schema_name |-> TenantA, is_active |-> TRUE]}
    /\ domains = {[domain |-> <<"a", ".", "x">>, tenant |-> 1,
                   is_primary |-> TRUE]}
    /\ company_seq = 1
    /\ db = [s \in {Public, TenantA} |->
                IF s = TenantA
                THEN create_user(EmptySchema, TenantA, "admin", "a@x",
                                 TRUE, TRUE).d
                ELSE LET d1 == create_user(EmptySchema, Public, "root",
                                           "r@x", TRUE, TRUE).d
                         d2 == create_user(d1, Public, "staff", "s@x",
                                           TRUE, FALSE).d
                     IN  create_user(d2, Public, "bob", "b@x",
                                     FALSE, FALSE).d]
    /\ schema_name = Public
    /\ now = 0
    /\ queue = EmptyBag
    /\ pending = {}
    /\ last = [op |-> "init", user |-> 0, status |-> 0, errors |-> {},
               data |-> None, body |-> <<>>]

NextRegistry ==
    \/ CompaniesList
    \/ CompaniesCreate
    \/ CompaniesRetrieve
    \/ CompaniesUpdate
    \/ CompaniesDestroy
    \/ DomainsList
    \/ DomainsCreate
    \/ DomainsRetrieve
    \/ DomainsUpdate
    \/ DomainsDestroy

SpecRegistry == InitRegistry /\ [][NextRegistry]_vars

-----------------------------------------------------------------------------
(* Company registration *)

\* The rows a registration of `data` leaves when it succeeds.
Registered(data) ==
    LET schema == lower(data.schema_name)
    IN  /\ \E c \in companies' \ companies :
            /\ c.schema_name = schema
            /\ \E dm \in domains' \ domains :
                /\ dm.domain = lower(data.domain_url)
                /\ dm.tenant = c.id
                /\ dm.is_primary
        /\ schema \in DOMAIN db' \ DOMAIN db
        /\ \E u \in db'[schema].users : u.username = data.admin_username

\* C1: a registration is all-or-nothing: a registration that does not answer
\* 201 leaves the Company and Domain tables and every namespace as they
\* were, and one that answers 201 has added the Company, its primary Domain,
\* its namespace and the admin identity in it.
RegistrationAllOrNothing ==
    [][\A data \in RegistrationInputs, fail \in BOOLEAN :
          register_company(data, fail) =>
              IF last'.status = 201
              THEN Registered(data)
              ELSE /\ companies' = companies
                   /\ domains' = domains
                   /\ db' = db]_vars

\* A registration has failed while creating the admin identity, after the
\* Company and the Domain had been written.
RegistrationFailedAtAdmin ==
    /\ last.op = "register"
    /\ last.status = 500
    /\ last.data = "admin_user"

MalformedSchemaName(value) ==
    \E i \in DOMAIN value :
        value[i] \notin UpperChars \cup LowerChars \cup DigitChars \cup {"_"}

\* C3: a registration whose schema identifier is malformed, or whose schema
\* identifier or hostname is, once lower-cased, already registered, is
\* answered 400 with a field error and creates nothing.
RegistrationRejectsInvalid ==
    [][\A data \in RegistrationInputs, fail \in BOOLEAN :
          (/\ register_company(data, fail)
           /\ \/ MalformedSchemaName(data.schema_name)
              \/ \E c \in companies :
                    lower(c.schema_name) = lower(data.schema_name)
              \/ \E dm \in domains :
                    lower(dm.domain) = lower(data.domain_url))
          => /\ last'.status = 400
             /\ last'.errors # {}
             /\ companies' = companies
             /\ domains' = domains
             /\ db' = db]_vars

\* The units of work: the request handlers and the background jobs.
UnitsOfWork ==
    {"register", "create_user", "user_register", "send_task_reminder_email",
     "cleanup_old_data"}

\* C4: a unit of work leaves the connection on the namespace it found it on.
NamespaceRestored ==
    [][last'.op \in UnitsOfWork => schema_name' = schema_name]_vars

-----------------------------------------------------------------------------
(* Identities and profiles *)

\* The identities of namespace s in `tables` (none when s does not exist).
UsersOf(tables, s) == IF s \in DOMAIN tables THEN tables[s].users ELSE {}

\* C5: whatever step creates an identity (direct creation, tenant user
\* registration, the admin identity of a company registration), the identity
\* has exactly one profile when it was created in a tenant namespace and
\* none when it was created in public; the profile's role is "member" when
\* the creation asked for no other role.
NewIdentityProfile ==
    [][/\ \A s \in DOMAIN db' : \A u \in db'[s].users \ UsersOf(db, s) :
            LET ps == ProfilesOf(db'[s], u.id)
            IN  IF s = Public THEN ps = {}
                ELSE /\ Cardinality(ps) = 1
                     /\ last'.op \in {"create_user", "register"}
                            => \A p \in ps : p.role = "member"
       /\ \A user_id \in UserIds, data \in UserRegistrationInputs :
            user_register(user_id, data) /\ data.role = "member"
            => \A u \in db'[schema_name].users \ db[schema_name].users :
                 \A p \in ProfilesOf(db'[schema_name], u.id) :
                    p.role = "member"]_vars

\* Identities have been created on all three paths: one directly in public
\* (no profile), and in a tenant namespace its admin identity, and a second
\* identity by tenant user registration, each with one profile.
IdentitiesCreatedEverywhere ==
    /\ last.op = "user_register"
    /\ last.status # 400
    /\ db[Public].users # {}
    /\ db[Public].profiles = {}
    /\ Cardinality(db[schema_name].users) = 2
    /\ \A u \in db[schema_name].users :
           Cardinality(ProfilesOf(db[schema_name], u.id)) = 1

\* C6: in every tenant namespace each identity has exactly one profile and
\* each profile belongs to an existing identity.
ProfileOneToOne ==
    \A s \in DOMAIN db \ {Public} :
        /\ \A u \in db[s].users : Cardinality(ProfilesOf(db[s], u.id)) = 1
        /\ \A p \in db[s].profiles : \E u \in db[s].users : u.id = p.user

\* C7: a tenant user registration with a username or email already in use
\* answers 400 and creates nothing; any other creates the identity together
\* with its profile carrying the requested role, phone and department; and
\* a registration that fails leaves no identity behind.
UserRegistrationAtomic ==
    [][\A user_id \in UserIds, data \in UserRegistrationInputs :
          user_register(user_id, data) =>
              LET d == db[schema_name]
                  e == db'[schema_name]
              IN  IF \E u \in d.users :
                        u.username = data.username \/ u.email = data.email
                  THEN last'.status = 400 /\ db' = db
                  ELSE \/ /\ last'.status = 201
                          /\ \E u \in e.users \ d.users :
                              /\ u.username = data.username
                              /\ u.email = data.email
                              /\ \E p \in e.profiles \ d.profiles :
                                  /\ p.user = u.id
                                  /\ p.role = data.role
                                  /\ p.phone = data.phone
                                  /\ p.department = data.department
                       \/ /\ last'.status # 201
                          /\ db' = db]_vars

-----------------------------------------------------------------------------
(* Projects *)

\* Project pk exists in the tables d of one namespace.
ProjectExists(d, pk) == \E p \in d.projects : p.id = pk

\* The identity owns the project or is one of its members.
Accessible(p, user_id) == p.owner = user_id \/ user_id \in p.members

\* C8: add_member and remove_member change nothing unless the caller owns
\* the project: a member who is not the owner is answered 403; the owner
\* naming an identity that does not exist is answered 404 and nothing
\* changes; the owner naming an existing identity adds it to (removes it
\* from) the member set.
MembershipOwnerOnly ==
    [][\A user_id \in UserIds, pk \in ProjectIds, target \in TargetIds :
          (/\ last'.op \in {"add_member", "remove_member"}
           /\ \/ add_member(user_id, pk, target)
              \/ remove_member(user_id, pk, target)) =>
              LET d == db[schema_name]
                  p == row(d.projects, pk)
                  known == \E u \in d.users : u.id = target
              IN  IF ~ ProjectExists(d, pk) THEN db' = db
                  ELSE /\ p.owner # user_id => db' = db
                       /\ p.owner # user_id /\ user_id \in p.members
                              => last'.status = 403
                       /\ p.owner = user_id /\ ~ known
                              => last'.status = 404 /\ db' = db
                       /\ p.owner = user_id /\ known
                              => /\ last'.status = 200
                                 /\ row(db'[schema_name].projects, pk).members
                                      = IF last'.op = "add_member"
                                        THEN p.members \cup {target}
                                        ELSE p.members \ {target}]_vars

\* A member who does not own the project was refused a membership change.
MemberRefusedMembershipChange ==
    /\ last.op \in {"add_member", "remove_member"}
    /\ last.status = 403
    /\ \E p \in db[schema_name].projects :
           last.user \in p.members /\ p.owner # last.user

\* C9: a project update or delete by anyone but the owner changes nothing:
\* a member who is not the owner is answered 403, an identity that is
\* neither owner nor member 404.
ProjectWriteOwnerOnly ==
    [][\A user_id \in UserIds, pk \in ProjectIds :
          (/\ last'.op \in {"project_update", "project_destroy"}
           /\ \/ project_destroy(user_id, pk)
              \/ \E data \in ProjectInputs :
                     project_update(user_id, pk, data)) =>
              LET d == db[schema_name]
                  p == row(d.projects, pk)
              IN  IF ~ ProjectExists(d, pk) THEN db' = db
                  ELSE p.owner # user_id =>
                          /\ db' = db
                          /\ last'.status =
                                 IF user_id \in p.members THEN 403
                                 ELSE 404]_vars

\* A member who does not own a project that has a task was refused an
\* update or a delete of it.
MemberRefusedProjectWrite ==
    /\ last.op \in {"project_update", "project_destroy"}
    /\ last.status = 403
    /\ \E p \in db[schema_name].projects :
           /\ last.user \in p.members
           /\ p.owner # last.user
           /\ \E t \in db[schema_name].tasks : t.project = p.id

\* The number of places of a list that hold x.
Occurrences(list, x) == Cardinality({i \in DOMAIN list : list[i] = x})

\* C10: the project list holds every project the caller owns or is a member
\* of exactly once and no other project; retrieve and statistics answer 200
\* for exactly those projects (statistics counting that project's tasks) and
\* 404 with no content for any other.
ProjectsVisibleExactly ==
    [][\A user_id \in UserIds :
          LET d == db[schema_name]
              mine == {p.id : p \in {q \in d.projects :
                                        Accessible(q, user_id)}}
          IN  /\ project_list(user_id) =>
                  /\ \A pk \in mine : Occurrences(last'.body, pk) = 1
                  /\ \A i \in DOMAIN last'.body : last'.body[i] \in mine
              /\ \A pk \in ProjectIds :
                  /\ project_retrieve(user_id, pk) =>
                        IF pk \in mine
                        THEN last'.status = 200 /\ last'.body = <<pk>>
                        ELSE last'.status = 404 /\ last'.body = <<>>
                  /\ statistics(user_id, pk) =>
                        IF pk \in mine
                        THEN /\ last'.status = 200
                             /\ last'.body[1] = Cardinality(
                                    {t \in d.tasks : t.project = pk})
                        ELSE last'.status = 404 /\ last'.body = <<>>]_vars

\* A project list was served to an identity that both owns a project and is
\* one of its several members: the project is listed once.
OwnerAndMemberListed ==
    /\ last.op = "project_list"
    /\ \E p \in db[schema_name].projects :
           /\ p.owner = last.user
           /\ last.user \in p.members
           /\ Cardinality(p.members) >= 2
           /\ last.body = <<p.id>>

-----------------------------------------------------------------------------
(* Tasks *)

\* The project of id pk in the tables d.
ProjectOf(d, pk) == row(d.projects, pk)

\* C11: a task creation is accepted (201, one new task in the named project
\* with the caller as created_by) exactly when the caller owns or is a
\* member of the project named, and is refused (400, nothing created)
\* otherwise; once add_member has added an identity to a project, the
\* identity has the access a creation in that project needs.
TaskCreateIffAccessible ==
    [][/\ last'.op = "task_create" =>
            \A data \in TaskWriteInputs :
                task_create_from(last'.user, data) =>
                    LET d == db[schema_name]
                        ok == \E p \in d.projects :
                                  /\ p.id = data.project
                                  /\ Accessible(p, last'.user)
                        new == db'[schema_name].tasks \ d.tasks
                    IN  IF ok
                        THEN /\ last'.status = 201
                             /\ Cardinality(new) = 1
                             /\ \A t \in new :
                                    /\ t.project = data.project
                                    /\ t.created_by = last'.user
                             /\ d.tasks \subseteq db'[schema_name].tasks
                        ELSE last'.status = 400 /\ db' = db
       /\ (last'.op = "add_member" /\ last'.status = 200) =>
            \A pk \in ProjectIds, target \in TargetIds :
                add_member(last'.user, pk, target) =>
                    Accessible(ProjectOf(db'[schema_name], pk), target)]_vars

\* Identity 2, refused while an outsider of project 1, created a task in it
\* after the owner added it as a member.
MemberCreatedTask ==
    /\ last.op = "task_create"
    /\ last.status = 201
    /\ last.user = 2
    /\ \E p \in db[schema_name].projects :
           /\ p.id = 1
           /\ p.owner # 2
           /\ 2 \in p.members
    /\ \E t \in db[schema_name].tasks : t.project = 1 /\ t.created_by = 2

\* The requests that write to an existing task.
TaskWriteOps ==
    {"task_update", "task_partial_update", "task_destroy", "mark_complete"}

\* C12: a write to an existing task changes or deletes a task only when the
\* caller owns or is a member of the task's project, and moves it only to a
\* project the caller also owns or is a member of; an accepted write names
\* a task of such a project; a refused write changes nothing; no task write
\* touches anything but the tasks.
TaskWritesNeedAccess ==
    [][last'.op \in TaskWriteOps =>
          LET d == db[schema_name]
              e == db'[schema_name]
              u == last'.user
          IN  /\ \A t \in d.tasks \ e.tasks :
                    /\ Accessible(ProjectOf(d, t.project), u)
                    /\ \A n \in e.tasks :
                           n.id = t.id
                           => Accessible(ProjectOf(d, n.project), u)
              /\ last'.status = 200 =>
                    \E t \in d.tasks :
                        /\ last'.body = <<t.id>>
                        /\ Accessible(ProjectOf(d, t.project), u)
              /\ last'.status \notin {200, 204} => db' = db
              /\ {n.id : n \in e.tasks} \subseteq {t.id : t \in d.tasks}
              /\ [e EXCEPT !.tasks = d.tasks] = d]_vars

\* A member of project 1 who has no access to project 2 was refused the
\* move of a task from project 1 to project 2.
TaskMoveRefused ==
    /\ last.op \in {"task_update", "task_partial_update"}
    /\ last.status = 400
    /\ last.errors = {"project.no_access"}
    /\ \E t \in db[schema_name].tasks :
           /\ Accessible(ProjectOf(db[schema_name], t.project), last.user)
           /\ ~ Accessible(ProjectOf(db[schema_name], 2), last.user)

\* C13: mark_complete on a task of a project the caller owns or is a member
\* of is accepted whatever the task's status, and leaves the task done with
\* completed_at the time of the call, not empty and no earlier than the
\* task's creation; the task's other fields and the other tasks are as
\* before.
MarkCompleteStamps ==
    [][last'.op = "mark_complete" =>
          LET d == db[schema_name]
              e == db'[schema_name]
          IN  /\ \A pk \in TaskIds :
                    (/\ mark_complete(last'.user, pk)
                     /\ \E t \in d.tasks :
                            /\ t.id = pk
                            /\ Accessible(ProjectOf(d, t.project),
                                          last'.user))
                    => last'.status = 200 /\ last'.body = <<pk>>
              /\ last'.status = 200 =>
                    \E t \in d.tasks :
                        LET n == row(e.tasks, t.id)
                        IN  /\ last'.body = <<t.id>>
                            /\ n.status = "done"
                            /\ n.completed_at = now
                            /\ n.completed_at # NoTime
                            /\ n.completed_at >= t.created_at
                            /\ [n EXCEPT !.status = t.status,
                                         !.completed_at = t.completed_at] = t
                            /\ e.tasks \ {n} = d.tasks \ {t}]_vars

\* A task created at one time was marked complete at a later time.
TaskCompletedLater ==
    /\ last.op = "mark_complete"
    /\ last.status = 200
    /\ \E t \in db[schema_name].tasks :
           /\ last.body = <<t.id>>
           /\ t.status = "done"
           /\ t.completed_at = now
           /\ t.created_at < now

\* C14: no step other than mark_complete gives a task a completed_at: a
\* task that such a step creates has none and a task that was there keeps
\* the one it had.
CompletedAtOnlyOnCompletion ==
    [][last'.op # "mark_complete" =>
          \A n \in db'[schema_name].tasks :
              IF \E t \in db[schema_name].tasks : t.id = n.id
              THEN n.completed_at
                       = row(db[schema_name].tasks, n.id).completed_at
              ELSE n.completed_at = NoTime]_vars

-----------------------------------------------------------------------------
(* Task lists and the dashboard *)

\* The tasks a list with these query parameters is to show the identity:
\* those of the projects it owns or is a member of that pass every filter
\* given (assigned_to=me, and my_tasks, asking for the identity's own).
TasksToShow(d, user_id, params, own) ==
    {t \in d.tasks :
        /\ \E p \in d.projects : p.id = t.project /\ Accessible(p, user_id)
        /\ params.project # Absent => t.project = params.project
        /\ params.status # None => t.status = params.status
        /\ params.assigned_to = Me => t.assigned_to = user_id
        /\ params.assigned_to \notin {Absent, Me}
               => t.assigned_to = params.assigned_to
        /\ own => t.assigned_to = user_id}

\* C15: for every combination of the project, status and assigned_to
\* parameters the task list holds, once each, exactly the tasks of the
\* caller's projects that pass all the filters given, and my_tasks exactly
\* those of them assigned to the caller.
TaskListExact ==
    [][last'.op \in {"task_list", "my_tasks"} =>
          \A params \in TaskQueryInputs :
              (IF last'.op = "task_list"
               THEN task_list(last'.user, params)
               ELSE my_tasks(last'.user, params)) =>
                  LET show == TasksToShow(db[schema_name], last'.user,
                                          params, last'.op = "my_tasks")
                  IN  /\ last'.status = 200
                      /\ Len(last'.body) = Cardinality(show)
                      /\ {last'.body[i] : i \in DOMAIN last'.body}
                             = {t.id : t \in show}]_vars

\* Identity 2 asked for its own tasks while one task assigned to it is in a
\* project it belongs to and another in a project it has no access to: the
\* answer holds the first only.
OwnTaskElsewhereHidden ==
    /\ last.op \in {"task_list", "my_tasks"}
    /\ last.user = 2
    /\ \E t, h \in db[schema_name].tasks :
           /\ t.assigned_to = 2
           /\ h.assigned_to = 2
           /\ t.status = h.status
           /\ Accessible(ProjectOf(db[schema_name], t.project), 2)
           /\ ~ Accessible(ProjectOf(db[schema_name], h.project), 2)
           /\ last.body = <<t.id>>

\* C16: the dashboard reports the number of projects the caller owns or is
\* a member of, the number of tasks in them, and of the tasks in them
\* assigned to the caller the total and the counts by status, which account
\* for every one of those tasks: they add up to the total.
DashboardAccountsForTasks ==
    [][last'.op = "dashboard_stats" =>
          LET d == db[schema_name]
              u == last'.user
              projects == {p \in d.projects : Accessible(p, u)}
              tasks == {t \in d.tasks : \E p \in projects : p.id = t.project}
              mine == {t \in tasks : t.assigned_to = u}
              body == last'.body
          IN  /\ body[1] = Cardinality(projects)
              /\ body[2] = Cardinality(tasks)
              /\ body[3] = Cardinality(mine)
              /\ body[4] = Cardinality({t \in mine : t.status = "todo"})
              /\ body[6] = Cardinality({t \in mine : t.status = "done"})
              /\ body[4] + body[5] + body[6] = body[3]]_vars

-----------------------------------------------------------------------------
(* Periodic jobs *)

\* The namespaces of the companies marked active.
ActiveNamespaces == {c.schema_name : c \in {x \in companies : x.is_active}}

\* The task is past its due date, not done and assigned.
NeedsReminder(t) ==
    /\ t.due_date # NoTime
    /\ t.due_date < now
    /\ t.status # "done"
    /\ t.assigned_to # NoUser

\* The messages about the tasks of any namespace.
AllMessages ==
    UNION {{[task_id |-> t.id, tenant_schema |-> s] : t \in db[s].tasks} :
              s \in DOMAIN db}

\* C17: one run of check_overdue_tasks adds to the queue exactly one
\* reminder for each task that is past its due date, not done and assigned,
\* in each namespace of an active company that did not fail, and no other
\* message; whichever namespaces fail, the others are processed; the run
\* changes no table.
OverdueRemindersExact ==
    [][last'.op = "check_overdue_tasks" =>
          \A failed \in SUBSET ActiveNamespaces :
              check_overdue_tasks(failed) =>
                  /\ \A m \in AllMessages \cup BagToSet(queue') :
                        CopiesIn(m, queue') - CopiesIn(m, queue) =
                            IF /\ m.tenant_schema \in
                                      ActiveNamespaces \ failed
                               /\ \E t \in db[m.tenant_schema].tasks :
                                      t.id = m.task_id /\ NeedsReminder(t)
                            THEN 1 ELSE 0
                  /\ db' = db]_vars

\* A run in which one active namespace failed enqueued the reminder of the
\* other active namespace's overdue task, and a done task past its due date
\* got none.
RemindersDespiteFailure ==
    /\ last.op = "check_overdue_tasks"
    /\ last.data = "logged"
    /\ ActiveNamespaces = {TenantA, TenantB}
    /\ \E m \in BagToSet(queue) : m.tenant_schema = TenantA
    /\ \A m \in BagToSet(queue) : m.tenant_schema # TenantB
    /\ \E t \in db[TenantB].tasks : NeedsReminder(t)
    /\ \E t \in db[TenantA].tasks :
           /\ t.status = "done"
           /\ t.due_date # NoTime
           /\ t.due_date < now
           /\ t.assigned_to # NoUser
           /\ CopiesIn([task_id |-> t.id, tenant_schema |-> TenantA],
                       queue) = 0

\* C18: cleanup_old_data(days) deletes, in each namespace of an active
\* company that did not fail, exactly the tasks that are done and were
\* completed more than `days` before now, and changes nothing else:
\* whichever namespaces fail, the others are cleaned.
CleanupDeletesExactly ==
    [][last'.op = "cleanup_old_data" =>
          \A days \in CleanupDays, failed \in SUBSET ActiveNamespaces :
              cleanup_old_data(days, failed) =>
                  /\ DOMAIN db' = DOMAIN db
                  /\ \A s \in DOMAIN db :
                        db'[s] =
                            [db[s] EXCEPT !.tasks =
                                {t \in @ :
                                    ~ (/\ s \in ActiveNamespaces \ failed
                                       /\ t.status = "done"
                                       /\ t.completed_at # NoTime
                                       /\ now - t.completed_at > days)}]
                  /\ queue' = queue]_vars

\* A run with days=90 deleted the done task of company "b" completed 91
\* days ago and kept a done task of company "a" completed 89 days ago.
OldTaskDeletedRecentKept ==
    /\ last.op = "cleanup_old_data"
    /\ last.body = <<1>>
    /\ db[TenantB].tasks = {}
    /\ \E t \in db[TenantA].tasks :
           t.status = "done" /\ now - t.completed_at = 89

-----------------------------------------------------------------------------
(* The registry endpoints *)

\* The requests to /companies/ and /domains/.
RegistryOps ==
    {"companies_list", "companies_create", "companies_retrieve",
     "companies_update", "companies_destroy", "domains_list",
     "domains_create", "domains_retrieve", "domains_update",
     "domains_destroy"}

\* C19: a request to /companies/ or /domains/ by an identity that is not a
\* superuser shows it no Company or Domain record and creates, changes and
\* deletes none.
RegistrySuperuserOnly ==
    [][(/\ last'.op \in RegistryOps
        /\ ~ row(db[Public].users, last'.user).is_superuser) =>
          /\ companies' = companies
          /\ domains' = domains
          /\ last'.body = <<>>
      ]_vars

-----------------------------------------------------------------------------
(* Deletion of projects and identities *)

\* C20: deleting a project deletes its tasks and no task of another
\* project; deleting an identity leaves every task it was assigned to in
\* place, unchanged but for an empty assigned_to.
DeletionCascades ==
    [][/\ (last'.op = "project_destroy" /\ last'.status = 204) =>
            \E p \in db[schema_name].projects :
                /\ ~ ProjectExists(db'[schema_name], p.id)
                /\ db'[schema_name].tasks =
                       {t \in db[schema_name].tasks : t.project # p.id}
       /\ last'.op = "delete_user" =>
            \A t \in db[schema_name].tasks :
                t.assigned_to = last'.body[1] =>
                    [t EXCEPT !.assigned_to = NoUser]
                        \in db'[schema_name].tasks
      ]_vars

-----------------------------------------------------------------------------
(* Concurrent registrations of tenant users *)

\* C21: whatever the interleaving of the registrations, no two identities
\* of a namespace share a username and no two share an email address.
RegistrationsKeepUnique ==
    \A s \in DOMAIN db :
        \A u1, u2 \in db[s].users :
            u1.id # u2.id =>
                u1.username # u2.username /\ u1.email # u2.email

-----------------------------------------------------------------------------
(* Done tasks and their completion time *)

\* C22: in every reachable state a task with status "done" has a
\* completed_at, so that cleanup_old_data, which asks for both, comes to
\* select it once it is old enough.
DoneHasCompletedAt ==
    \A s \in DOMAIN db :
        \A t \in db[s].tasks : t.status = "done" => t.completed_at # NoTime

-----------------------------------------------------------------------------
(* Profile roles *)

\* The /users/ operations that write.
UsersWriteOps ==
    {"users_create", "users_update", "users_destroy", "user_register"}

\* The rank of a profile role, "admin" highest.
RoleRank(role) ==
    CASE role = "admin" -> 3
      [] role = "manager" -> 2
      [] role = "member" -> 1
      [] OTHER -> 0

\* C23: a /users/ operation by an identity whose profile role is not
\* "admin" does not raise that identity's own role, leaves the profiles of
\* the other identities as they are, and creates no identity whose profile
\* role is "admin".
RolesChangedByAdminsOnly ==
    [][(/\ last'.op \in UsersWriteOps
        /\ \A p \in ProfilesOf(db[schema_name], last'.user) :
               p.role # "admin") =>
          LET before == db[schema_name]
              after == db'[schema_name]
          IN  /\ \A p \in before.profiles :
                    p.user # last'.user => p \in after.profiles
              /\ \A p \in ProfilesOf(after, last'.user) :
                    \E q \in ProfilesOf(before, last'.user) :
                        RoleRank(p.role) <= RoleRank(q.role)
              /\ \A p \in after.profiles :
                    (~ \E u \in before.users : u.id = p.user) =>
                        p.role # "admin"
      ]_vars

====
